---- MODULE Spec2Model ----
(***************************************************************************)
(* Model of src/src/nodes/node.ts: one Ben-Or participant per node id, its *)
(* HTTP handlers (/message, /stop, /start) and the runConsensus loop.      *)
(*                                                                         *)
(* JavaScript runs each node on one event loop: a handler, or the part of  *)
(* runConsensus between two awaits, is one atomic step.  The awaits are    *)
(* the fetch of every single send in broadcastMessage and the timer poll   *)
(* of waitForMessages.  Every call of runConsensus that enters the loop is *)
(* an engine instance of its own, with its own locals.                     *)
(*                                                                         *)
(* Encoding of JavaScript values:                                          *)
(*   x and vote values   "0", "1", "?" and "null"                          *)
(*   decided, k          Null (<<>>) or Some(v) (<<v>>)                    *)
(*   a JSON number       [type |-> "number", num, den]  (num/den)          *)
(*   a vote array        the bag of its elements: the code only pushes to  *)
(*                       receivedMessages[phase][round], reads its length  *)
(*                       and counts its elements by value                  *)
(***************************************************************************)
EXTENDS Integers, Sequences, FiniteSets, Bags, TLC

VARIABLES
    N,                 \* number of participants        (node() parameter)
    F,                 \* tolerated number of faults    (node() parameter)
    isFaulty,          \* isFaulty[n]                   (node() parameter)
    state,             \* state[n]: NodeState of node n
    receivedMessages,  \* receivedMessages[n][phase]: round key -> votes
    engines,           \* engines[n]: the runConsensus activations of n
    budget             \* requests the environment may still make

vars == <<N, F, isFaulty, state, receivedMessages, engines, budget>>

----------------------------------------------------------------------------
(* Bounds of the model *)

\* rounds an engine may enter: 0 .. MaxRound
MaxRound == 1
\* activations of runConsensus in a run, over all nodes
MaxStarts == 2
\* GET /stop requests in a run
MaxStops == 1
\* external POST /message requests in a run
MaxExt == 1
\* failing fetches in a run
MaxFail == 1
\* votes of one value a store holds for a phase when a tally run begins
MaxVotes == 2

----------------------------------------------------------------------------
(* JavaScript values *)

Null == <<>>
Some(v) == <<v>>

\* state.k ?? 0
Coalesce(v, d) == IF v = Null THEN d ELSE v[1]

\* truthiness of state.decided (null and false are falsy)
Truthy(v) == v = Some(TRUE)

Num(n, d) == [type |-> "number", num |-> n, den |-> d]
NotNum(t) == [type |-> t, num |-> 0, den |-> 1]

\* typeof round
TypeOf(j) == j.type

\* the property key under which receivedMessages[phase] files a number
Key(j) == <<j.num, j.den>>

Phases == {"R", "P"}

Nodes == 0 .. (N - 1)

\* the votes stored for (phase, round): receivedMessages[phase][round] || []
Stored(rm, phase, round) ==
    IF <<round, 1>> \in DOMAIN rm[phase] THEN rm[phase][<<round, 1>>] ELSE EmptyBag

\* number of stored votes with the given value
Count(msgs, v) == BagCardinality([m \in {b \in DOMAIN msgs : b.value = v} |-> msgs[m]])

----------------------------------------------------------------------------
(* POST /message *)

\* the test of line 120: the request is answered 400
Rejected(body) == body.phase \notin {"R", "P"} \/ TypeOf(body.round) # "number"

\* MessageStore that keeps one vote of a sender per phase and round
MessageStore_Dedup(rm, body) ==
    IF Rejected(body)
    THEN rm
    ELSE LET key == Key(body.round)
             old == IF key \in DOMAIN rm[body.phase]
                    THEN rm[body.phase][key] ELSE EmptyBag
         IN  IF \E m \in DOMAIN old : m.senderId = body.senderId
             THEN rm
             ELSE [rm EXCEPT ![body.phase] =
                     [q \in DOMAIN rm[body.phase] \cup {key} |->
                         IF q = key THEN old (+) SetToBag({body}) ELSE rm[body.phase][q]]]

\* the store of a node after the handler ran on body
MessageStore(rm, body) ==
    IF Rejected(body)
    THEN rm
    ELSE LET key == Key(body.round)
             old == IF key \in DOMAIN rm[body.phase]
                    THEN rm[body.phase][key] ELSE EmptyBag
         IN  [rm EXCEPT ![body.phase] =
                 [q \in DOMAIN rm[body.phase] \cup {key} |->
                     IF q = key THEN old (+) SetToBag({body}) ELSE rm[body.phase][q]]]

\* the status code the handler answers
MessageStatus(body) == IF Rejected(body) THEN 400 ELSE 200

\* the vote broadcastMessage builds
Vote(sender, phase, round, value) ==
    [senderId |-> sender, phase |-> phase, round |-> Num(round, 1), value |-> value]

----------------------------------------------------------------------------
(* runConsensus *)

\* locals of one activation of runConsensus
\*   pc     "Rsend" | "Rwait" | "Psend" | "Pwait" | "done"
\*   round  the iteration's round
\*   tgt    targetId of the running broadcast
\*   value  value of the vote being broadcast (state.x, then R_phase_value)
\* rMsgs and pMsgs are the stored arrays themselves (line 65 hands out the
\* array of the store), read in the step in which the wait returns
NewIteration(st) ==
    [pc |-> "Rsend", round |-> Coalesce(st.k, 0), tgt |-> 0, value |-> st.x]

\* while (!state.decided && !state.killed)
LoopCondition(st) == ~Truthy(st.decided) /\ ~st.killed

\* WaitResolves with a quorum one vote short
WaitResolves_Short(n, phase, round) ==
    \/ BagCardinality(Stored(receivedMessages[n], phase, round)) >= N - F - 1
    \/ state[n].killed

\* WaitResolves that does not look at killed
WaitResolves_NoKill(n, phase, round) ==
    BagCardinality(Stored(receivedMessages[n], phase, round)) >= N - F

\* line 66: waitForMessages resolves at this poll
WaitResolves(n, phase, round) ==
    \/ BagCardinality(Stored(receivedMessages[n], phase, round)) >= N - F
    \/ state[n].killed

\* majorityThreshold that takes half of the nodes for a majority
majorityThreshold_Half == N \div 2

\* majorityThreshold that asks for every node's vote
majorityThreshold_All == N

\* line 173
majorityThreshold == (N \div 2) + 1

\* fPlusOne one vote short
fPlusOne_Low == F

fPlusOne == F + 1

\* Break that never leaves the loop
Break_Never(n) == FALSE

\* lines 162 and 186: if (state.killed) break
Break(n) == state[n].killed

\* R_phase_value that tests count1 first
R_phase_value_OneFirst(rMsgs) ==
    IF Count(rMsgs, "1") >= majorityThreshold THEN "1"
    ELSE IF Count(rMsgs, "0") >= majorityThreshold THEN "0"
    ELSE "?"

\* lines 164-179
R_phase_value(rMsgs) ==
    IF Count(rMsgs, "0") >= majorityThreshold THEN "0"
    ELSE IF Count(rMsgs, "1") >= majorityThreshold THEN "1"
    ELSE "?"

\* AfterPTally that counts the votes "?" as a value of their own
AfterPTally_CountsUnknown(st, round, pMsgs, coin) ==
    LET pCount0 == Count(pMsgs, "0")
        pCount1 == Count(pMsgs, "1")
    IN  IF pCount0 >= fPlusOne
        THEN [st EXCEPT !.x = "0", !.decided = Some(TRUE), !.k = Some(round + 1)]
        ELSE IF pCount1 >= fPlusOne
        THEN [st EXCEPT !.x = "1", !.decided = Some(TRUE), !.k = Some(round + 1)]
        ELSE IF Count(pMsgs, "?") >= fPlusOne
        THEN [st EXCEPT !.x = "?", !.decided = Some(TRUE), !.k = Some(round + 1)]
        ELSE IF pCount0 > 0
        THEN [st EXCEPT !.x = "0", !.k = Some(round + 1)]
        ELSE IF pCount1 > 0
        THEN [st EXCEPT !.x = "1", !.k = Some(round + 1)]
        ELSE [st EXCEPT !.x = coin, !.k = Some(round + 1)]

\* AfterPTally that leaves the loop on a decision before k is advanced
AfterPTally_NoAdvance(st, round, pMsgs, coin) ==
    LET pCount0 == Count(pMsgs, "0")
        pCount1 == Count(pMsgs, "1")
    IN  IF pCount0 >= fPlusOne
        THEN [st EXCEPT !.x = "0", !.decided = Some(TRUE)]
        ELSE IF pCount1 >= fPlusOne
        THEN [st EXCEPT !.x = "1", !.decided = Some(TRUE)]
        ELSE IF pCount0 > 0
        THEN [st EXCEPT !.x = "0", !.k = Some(round + 1)]
        ELSE IF pCount1 > 0
        THEN [st EXCEPT !.x = "1", !.k = Some(round + 1)]
        ELSE [st EXCEPT !.x = coin, !.k = Some(round + 1)]

\* AfterPTally that adopts an observed 1 before an observed 0
AfterPTally_OneFirst(st, round, pMsgs, coin) ==
    LET pCount0 == Count(pMsgs, "0")
        pCount1 == Count(pMsgs, "1")
    IN  IF pCount0 >= fPlusOne
        THEN [st EXCEPT !.x = "0", !.decided = Some(TRUE), !.k = Some(round + 1)]
        ELSE IF pCount1 >= fPlusOne
        THEN [st EXCEPT !.x = "1", !.decided = Some(TRUE), !.k = Some(round + 1)]
        ELSE IF pCount1 > 0
        THEN [st EXCEPT !.x = "1", !.k = Some(round + 1)]
        ELSE IF pCount0 > 0
        THEN [st EXCEPT !.x = "0", !.k = Some(round + 1)]
        ELSE [st EXCEPT !.x = coin, !.k = Some(round + 1)]

\* lines 201-222: the state after the P-tally; coin is Math.random() < 0.5 ? 0 : 1
AfterPTally(st, round, pMsgs, coin) ==
    LET pCount0 == Count(pMsgs, "0")
        pCount1 == Count(pMsgs, "1")
    IN  IF pCount0 >= fPlusOne
        THEN [st EXCEPT !.x = "0", !.decided = Some(TRUE), !.k = Some(round + 1)]
        ELSE IF pCount1 >= fPlusOne
        THEN [st EXCEPT !.x = "1", !.decided = Some(TRUE), !.k = Some(round + 1)]
        ELSE IF pCount0 > 0
        THEN [st EXCEPT !.x = "0", !.k = Some(round + 1)]
        ELSE IF pCount1 > 0
        THEN [st EXCEPT !.x = "1", !.k = Some(round + 1)]
        ELSE [st EXCEPT !.x = coin, !.k = Some(round + 1)]

----------------------------------------------------------------------------
(* Construction *)

\* lines 40-45
InitialState(faulty, initialValue) ==
    [killed  |-> FALSE,
     x       |-> IF faulty THEN "null" ELSE initialValue,
     decided |-> IF faulty THEN Null ELSE Some(FALSE),
     k       |-> IF faulty THEN Null ELSE Some(0)]

\* lines 51-54
EmptyStore == [phase \in Phases |-> <<>>]

\* a network of c.N nodes built by node(nodeId, N, F, initialValue, isFaulty, ...)
Launch(c, starts, stops, ext, fail) ==
    /\ N = c.N
    /\ F = c.F
    /\ isFaulty = [n \in 0 .. (c.N - 1) |-> n \in c.faulty]
    /\ state = [n \in 0 .. (c.N - 1) |-> InitialState(n \in c.faulty, c.values[n + 1])]
    /\ receivedMessages = [n \in 0 .. (c.N - 1) |-> EmptyStore]
    /\ engines = [n \in 0 .. (c.N - 1) |-> <<>>]
    /\ budget = [starts |-> starts, stops |-> stops, ext |-> ext, fail |-> fail]

----------------------------------------------------------------------------
(* Handlers *)

\* Start that does not look at isFaulty
Start_AnyNode(n) ==
    /\ n \in Nodes
    /\ IF ~state[n].killed /\ LoopCondition(state[n])
       THEN /\ budget.starts > 0
            /\ budget' = [budget EXCEPT !.starts = @ - 1]
            /\ engines' = [engines EXCEPT ![n] = Append(@, NewIteration(state[n]))]
       ELSE UNCHANGED <<engines, budget>>
    /\ UNCHANGED <<N, F, isFaulty, state, receivedMessages>>

\* GET /start, and runConsensus up to its first await
Start(n) ==
    /\ n \in Nodes
    /\ IF ~isFaulty[n] /\ ~(isFaulty[n] \/ state[n].killed) /\ LoopCondition(state[n])
       THEN /\ budget.starts > 0
            /\ budget' = [budget EXCEPT !.starts = @ - 1]
            /\ engines' = [engines EXCEPT ![n] = Append(@, NewIteration(state[n]))]
       ELSE UNCHANGED <<engines, budget>>
    /\ UNCHANGED <<N, F, isFaulty, state, receivedMessages>>

\* GET /stop
Stop(n) ==
    /\ n \in Nodes
    /\ budget.stops > 0
    /\ budget' = [budget EXCEPT !.stops = @ - 1]
    /\ state' = [state EXCEPT ![n].killed = TRUE]
    /\ UNCHANGED <<N, F, isFaulty, receivedMessages, engines>>

\* POST /message sent by anyone but the engines of the model
Message(n, body) ==
    /\ n \in Nodes
    /\ budget.ext > 0
    /\ budget' = [budget EXCEPT !.ext = @ - 1]
    /\ receivedMessages' = [receivedMessages EXCEPT ![n] = MessageStore(@, body)]
    /\ UNCHANGED <<N, F, isFaulty, state, engines>>

----------------------------------------------------------------------------
(* Steps of an engine: engines[n][i] *)

\* engines[n][i] exists
Engine(n, i) == n \in Nodes /\ i \in 1 .. Len(engines[n])

PhaseOf(e) == IF e.pc \in {"Rsend", "Rwait"} THEN "R" ELSE "P"

\* the engine once the fetch to e.tgt has settled: the next target, or the wait
AfterFetch(e) ==
    IF e.tgt + 1 < N
    THEN [e EXCEPT !.tgt = e.tgt + 1]
    ELSE [e EXCEPT !.tgt = 0, !.pc = IF e.pc = "Rsend" THEN "Rwait" ELSE "Pwait"]

\* lines 85-92: one fetch of broadcastMessage reaches the target's /message
Send(n, i) ==
    /\ Engine(n, i)
    /\ engines[n][i].pc \in {"Rsend", "Psend"}
    /\ LET e == engines[n][i]
       IN  /\ receivedMessages' =
                  [receivedMessages EXCEPT ![e.tgt] =
                      MessageStore(@, Vote(n, PhaseOf(e), e.round, e.value))]
           /\ engines' = [engines EXCEPT ![n][i] = AfterFetch(e)]
    /\ UNCHANGED <<N, F, isFaulty, state, budget>>

\* SendFails in which the error leaves broadcastMessage and ends runConsensus
SendFails_Aborts(n, i) ==
    /\ Engine(n, i)
    /\ engines[n][i].pc \in {"Rsend", "Psend"}
    /\ budget.fail > 0
    /\ budget' = [budget EXCEPT !.fail = @ - 1]
    /\ engines' = [engines EXCEPT ![n][i] = [@ EXCEPT !.pc = "done"]]
    /\ UNCHANGED <<N, F, isFaulty, state, receivedMessages>>

\* lines 93-96: one fetch of broadcastMessage throws
SendFails(n, i) ==
    /\ Engine(n, i)
    /\ engines[n][i].pc \in {"Rsend", "Psend"}
    /\ budget.fail > 0
    /\ budget' = [budget EXCEPT !.fail = @ - 1]
    /\ engines' = [engines EXCEPT ![n][i] = AfterFetch(engines[n][i])]
    /\ UNCHANGED <<N, F, isFaulty, state, receivedMessages>>

\* lines 161-181: a poll of waitForMessages("R", round) and what follows it
RWait(n, i) ==
    /\ Engine(n, i)
    /\ engines[n][i].pc = "Rwait"
    /\ LET e     == engines[n][i]
           rMsgs == Stored(receivedMessages[n], "R", e.round)
       IN  engines' =
               IF ~WaitResolves(n, "R", e.round) THEN engines
               ELSE IF Break(n)
               THEN [engines EXCEPT ![n][i] = [e EXCEPT !.pc = "done"]]
               ELSE [engines EXCEPT ![n][i] =
                        [e EXCEPT !.pc = "Psend", !.tgt = 0,
                                  !.value = R_phase_value(rMsgs)]]
    /\ UNCHANGED <<N, F, isFaulty, state, receivedMessages, budget>>

\* the engine after the P-tally left the node in state st
AfterIteration(e, st) ==
    IF LoopCondition(st) THEN NewIteration(st) ELSE [e EXCEPT !.pc = "done"]

\* lines 185-223 and 153-158: a poll of waitForMessages("P", round), the tally,
\* and the next iteration up to its first await
PWait(n, i) ==
    /\ Engine(n, i)
    /\ engines[n][i].pc = "Pwait"
    /\ LET e     == engines[n][i]
           pMsgs == Stored(receivedMessages[n], "P", e.round)
       IN  IF ~WaitResolves(n, "P", e.round)
           THEN UNCHANGED <<state, engines>>
           ELSE IF Break(n)
           THEN /\ engines' = [engines EXCEPT ![n][i] = [e EXCEPT !.pc = "done"]]
                /\ UNCHANGED state
           ELSE \E coin \in {"0", "1"} :
                  LET st == AfterPTally(state[n], e.round, pMsgs, coin)
                  IN  /\ LoopCondition(st) => e.round + 1 <= MaxRound
                      /\ state' = [state EXCEPT ![n] = st]
                      /\ engines' = [engines EXCEPT ![n][i] = AfterIteration(e, st)]
    /\ UNCHANGED <<N, F, isFaulty, receivedMessages, budget>>

----------------------------------------------------------------------------
(* Inputs *)

\* the rounds an external POST /message carries: 0, -1, 1/2, a string, none
RoundInputs ==
    {Num(0, 1), Num(-1, 1), Num(1, 2), NotNum("string"), NotNum("undefined")}

\* the bodies an external POST /message carries: the well-formed votes of round
\* 0, a vote of no phase, and the votes of each other round input
Bodies ==
    [senderId : {0}, phase : {"R", "P"}, round : {Num(0, 1)}, value : {"0", "1"}]
    \cup [senderId : {0}, phase : {"X"}, round : {Num(0, 1)}, value : {"1"}]
    \cup [senderId : {0}, phase : {"P"}, round : RoundInputs, value : {"1"}]

\* the networks of the general specification
Configs ==
    {[N |-> 2, F |-> 0, faulty |-> {}, values |-> <<"1", "0">>],
     [N |-> 3, F |-> 1, faulty |-> {2}, values |-> <<"1", "1", "?">>]}

----------------------------------------------------------------------------
(* Specifications *)

Init == \E c \in Configs : Launch(c, MaxStarts, MaxStops, MaxExt, MaxFail)

\* the node ids and the activation numbers of every network modelled
NodeIds == 0 .. 3

EngineIds == 1 .. 4

Step(n, i) == Send(n, i) \/ SendFails(n, i) \/ RWait(n, i) \/ PWait(n, i)

Next ==
    \E n \in NodeIds :
        \/ Start(n)
        \/ Stop(n)
        \/ \E body \in Bodies : Message(n, body)
        \/ \E i \in EngineIds : Step(n, i)

Spec == Init /\ [][Next]_vars

----------------------------------------------------------------------------
(* A network of four in which the orchestrator starts every node once, stops
   none, and every fetch succeeds *)

FourNodes == [N |-> 4, F |-> 1, faulty |-> {}, values |-> <<"1", "1", "1", "0">>]

InitQuorum == Launch(FourNodes, 4, 0, 0, 0)

\* the launcher's single GET /start to node n
StartOnce(n) == n \in Nodes /\ Len(engines[n]) = 0 /\ Start(n)

RunStep(n, i) == Send(n, i) \/ RWait(n, i) \/ PWait(n, i)

NextQuorum ==
    \E n \in NodeIds :
        \/ StartOnce(n)
        \/ \E i \in EngineIds : RunStep(n, i)

SpecQuorum == InitQuorum /\ [][NextQuorum]_vars

----------------------------------------------------------------------------
(* A network of two whose nodes are sent GET /start more than once; no node is
   stopped and every fetch succeeds *)

TwoNodes == [N |-> 2, F |-> 0, faulty |-> {}, values |-> <<"1", "0">>]

InitRestart == Launch(TwoNodes, 4, 0, 0, 0)

\* a GET /start to a node that got at most one before
StartAgain(n) == n \in Nodes /\ Len(engines[n]) < 2 /\ Start(n)

NextRestart ==
    \E n \in NodeIds :
        \/ StartAgain(n)
        \/ \E i \in EngineIds : RunStep(n, i)

SpecRestart == InitRestart /\ [][NextRestart]_vars

----------------------------------------------------------------------------
(* A network of four with one silent faulty node and three non-faulty nodes of
   initial value 1; every node is sent GET /start once, none is stopped and
   every fetch succeeds.  The event loop runs every pending continuation, so
   the run goes on while a step can change the state. *)

Unanimous == [N |-> 4, F |-> 1, faulty |-> {3}, values |-> <<"1", "1", "1", "?">>]

InitUnanimous == Launch(Unanimous, 3, 0, 0, 0)

NextUnanimous ==
    \E n \in NodeIds :
        \/ StartOnce(n)
        \/ \E i \in EngineIds : RunStep(n, i)

SpecUnanimous == InitUnanimous /\ [][NextUnanimous]_vars /\ WF_vars(NextUnanimous)

----------------------------------------------------------------------------
(* Tally runs: node 0 already holds round-0 votes of a peer, delivered by POST
   /message before any start (up to MaxVotes votes of each value and phase; the
   handler does not look at the sender).  One node is then started and every
   fetch succeeds, so each tally is made over a chosen mix of votes. *)

TallyConfigs ==
    {[N |-> 2, F |-> 0, faulty |-> {}, values |-> <<"0", "1">>],
     [N |-> 3, F |-> 1, faulty |-> {}, values |-> <<"?", "1", "1">>]}

\* k votes v, as receivedMessages[phase][round] holds them
Votes(v, k) == IF k = 0 THEN EmptyBag ELSE [m \in {v} |-> k]

\* the store after c[1] votes 0, c[2] votes 1 and c[3] votes "?" of peer 1 were
\* delivered for round 0 of the phase
Delivered(phase, c) ==
    LET msgs == Votes(Vote(1, phase, 0, "0"), c[1])
                (+) Votes(Vote(1, phase, 0, "1"), c[2])
                (+) Votes(Vote(1, phase, 0, "?"), c[3])
    IN  IF c[1] + c[2] + c[3] = 0 THEN <<>> ELSE (<<0, 1>> :> msgs)

InitTally ==
    \E c \in TallyConfigs : \E r \in [1 .. 3 -> 0 .. MaxVotes] : \E p \in [1 .. 3 -> 0 .. MaxVotes] :
        /\ N = c.N
        /\ F = c.F
        /\ isFaulty = [n \in 0 .. (c.N - 1) |-> n \in c.faulty]
        /\ state = [n \in 0 .. (c.N - 1) |-> InitialState(n \in c.faulty, c.values[n + 1])]
        /\ receivedMessages =
               [n \in 0 .. (c.N - 1) |->
                   IF n = 0 THEN [phase \in Phases |->
                                     IF phase = "R" THEN Delivered("R", r) ELSE Delivered("P", p)]
                   ELSE EmptyStore]
        /\ engines = [n \in 0 .. (c.N - 1) |-> <<>>]
        /\ budget = [starts |-> 1, stops |-> 0, ext |-> 0, fail |-> 0]

NextTally ==
    \E n \in NodeIds :
        \/ StartOnce(n)
        \/ \E i \in EngineIds : RunStep(n, i)

SpecTally == InitTally /\ [][NextTally]_vars

----------------------------------------------------------------------------
(* A network of three non-faulty nodes of mixed initial values in which every
   node is sent GET /start once, none is stopped and every fetch succeeds:
   every sender gives one R-vote and one P-vote per round *)

ThreeNodes == [N |-> 3, F |-> 1, faulty |-> {}, values |-> <<"1", "1", "0">>]

InitOnce == Launch(ThreeNodes, 3, 0, 0, 0)

NextOnce ==
    \E n \in NodeIds :
        \/ StartOnce(n)
        \/ \E i \in EngineIds : RunStep(n, i)

SpecOnce == InitOnce /\ [][NextOnce]_vars

----------------------------------------------------------------------------
(* Properties *)

NonFaulty == {n \in Nodes : ~isFaulty[n]}

Decided(n) == Truthy(state[n].decided)

\* the activations of runConsensus on n that have not returned
Active(n) == {i \in 1 .. Len(engines[n]) : engines[n][i].pc # "done"}

\* C1 (agreement): no two non-faulty nodes have decided = true with different
\* values of x.
C1_Agreement ==
    \A n \in NonFaulty : \A m \in NonFaulty :
        (Decided(n) /\ Decided(m)) => state[n].x = state[m].x

\* engine i of node n is suspended in a quorum wait that no poll resolves
Starved(n, i) ==
    /\ engines[n][i].pc \in {"Rwait", "Pwait"}
    /\ ~WaitResolves(n, PhaseOf(engines[n][i]), engines[n][i].round)

\* every non-faulty node was started, and no engine will send another vote:
\* each has returned or is starved
Quiescent ==
    /\ \A n \in NonFaulty : Len(engines[n]) > 0
    /\ \A n \in Nodes : \A i \in 1 .. Len(engines[n]) :
           engines[n][i].pc = "done" \/ Starved(n, i)

\* C2 (termination): no state leaves an undecided, not-killed non-faulty node
\* suspended in a quorum wait for votes that no node will ever send.
C2_NoStarvedWait ==
    ~(/\ Quiescent
      /\ \E n \in NonFaulty :
             /\ ~Decided(n)
             /\ ~state[n].killed
             /\ \E i \in Active(n) : Starved(n, i))

\* engine i of node n starts a broadcast in this step
StartsBroadcast(n, i) ==
    /\ i \in 1 .. Len(engines'[n])
    /\ engines'[n][i].pc \in {"Rsend", "Psend"}
    /\ engines'[n][i].tgt = 0
    /\ \/ i > Len(engines[n])
       \/ engines[n][i].pc \notin {"Rsend", "Psend"}
       \/ engines[n][i].pc # engines'[n][i].pc

\* C3 (irreversibility): once decided is true on a node it stays true, x does
\* not change any more and no engine of the node starts another R or P
\* broadcast.
C3_Irreversible ==
    [][\A n \in Nodes :
          Decided(n) =>
              /\ Truthy(state'[n].decided)
              /\ state'[n].x = state[n].x
              /\ \A i \in 1 .. Len(engines'[n]) : ~StartsBroadcast(n, i)]_vars

\* C4 (idempotent start): at most one activation of the engine loop is ever
\* active on a node.
C4_SingleLoop == \A n \in Nodes : Cardinality(Active(n)) <= 1

\* C7 (monotonic rounds): every change of k on a non-faulty node is an increase
\* by exactly 1.
C7_MonotonicRounds ==
    [][\A n \in NonFaulty :
          state'[n].k # state[n].k =>
              state'[n].k = Some(Coalesce(state[n].k, 0) + 1)]_vars

\* engine i of node n leaves its quorum wait for the given phase in this step
WaitReturns(n, i, pc) ==
    /\ i \in 1 .. Len(engines[n])
    /\ engines[n][i].pc = pc
    /\ engines'[n][i] # engines[n][i]

\* the votes a wait of engine i of node n returns when it returns in this step
Returned(n, i) ==
    Stored(receivedMessages[n], PhaseOf(engines[n][i]), engines[n][i].round)

\* C5 (decision threshold): a node sets decided = true with x = v only in a
\* step in which one of its engines ends its P-wait for its round with at least
\* F+1 stored P-votes of that round whose value is v.
C5_DecisionThreshold ==
    [][\A n \in Nodes :
          (~Decided(n) /\ Truthy(state'[n].decided)) =>
              \E i \in 1 .. Len(engines[n]) :
                  /\ WaitReturns(n, i, "Pwait")
                  /\ state'[n].x \in {"0", "1"}
                  /\ Count(Returned(n, i), state'[n].x) >= F + 1
                  /\ state'[n].k = Some(engines[n][i].round + 1)]_vars

\* C5: a node that tolerates a fault has decided 1 on F+1 stored P-votes of the
\* round it decided in
C5_Witness ==
    \E n \in Nodes :
        /\ F >= 1
        /\ Decided(n)
        /\ state[n].x = "1"
        /\ Count(Stored(receivedMessages[n], "P", state[n].k[1] - 1), "1") >= F + 1

\* C6 (quorum sufficiency): a quorum wait returns fewer than N-F votes only
\* when killed is true as it returns, and every R-tally and P-tally is made over
\* at least N-F votes.
C6_QuorumSufficiency ==
    [][\A n \in Nodes : \A i \in 1 .. Len(engines[n]) :
          /\ WaitReturns(n, i, "Rwait") =>
                /\ BagCardinality(Returned(n, i)) >= N - F \/ state[n].killed
                /\ engines'[n][i].pc = "Psend" => BagCardinality(Returned(n, i)) >= N - F
          /\ WaitReturns(n, i, "Pwait") =>
                /\ BagCardinality(Returned(n, i)) >= N - F \/ state[n].killed
                /\ state'[n] # state[n] => BagCardinality(Returned(n, i)) >= N - F]_vars

\* C6: on a node that tolerates a fault and was not killed an engine has
\* completed a round: both waits returned and both tallies were made
C6_Witness ==
    \E n \in Nodes :
        /\ F >= 1
        /\ ~state[n].killed
        /\ state[n].k = Some(1)
        /\ BagCardinality(Stored(receivedMessages[n], "R", 0)) >= N - F
        /\ BagCardinality(Stored(receivedMessages[n], "P", 0)) >= N - F

\* C8 (cancellation while waiting): on a killed node a poll of a quorum wait
\* resolves, and the engine then returns without a tally and without another
\* broadcast: the node state and every store are as they were.
C8_CancelledWait ==
    [][\A n \in Nodes : \A i \in 1 .. Len(engines[n]) :
          (state[n].killed /\ engines[n][i].pc \in {"Rwait", "Pwait"}) =>
              /\ WaitResolves(n, PhaseOf(engines[n][i]), engines[n][i].round)
              /\ engines'[n][i] # engines[n][i] =>
                    /\ engines'[n][i] = [engines[n][i] EXCEPT !.pc = "done"]
                    /\ state' = state
                    /\ receivedMessages' = receivedMessages]_vars

\* C8: the only engine of a killed node has returned from the R-wait of round 0
\* with fewer votes than the quorum: no P-vote of the node exists
C8_Witness ==
    \E n \in Nodes :
        /\ state[n].killed
        /\ Len(engines[n]) = 1
        /\ engines[n][1].pc = "done"
        /\ state[n].k = Some(0)
        /\ BagCardinality(Stored(receivedMessages[n], "R", 0)) > 0
        /\ BagCardinality(Stored(receivedMessages[n], "R", 0)) < N - F
        /\ BagCardinality(Stored(receivedMessages[n], "P", 0)) = 0

\* C9 (stop freezes the node): once killed is true it stays true and x, decided
\* and k of the node never change again.
C9_KilledFrozen ==
    [][\A n \in Nodes : state[n].killed => state'[n] = state[n]]_vars

\* C9: an undecided node was killed with the P-quorum of its round stored, and
\* its engine has returned without the tally
C9_Witness ==
    \E n \in Nodes :
        /\ state[n].killed
        /\ state[n].decided = Some(FALSE)
        /\ Len(engines[n]) = 1
        /\ engines[n][1].pc = "done"
        /\ BagCardinality(Stored(receivedMessages[n], "P", state[n].k[1])) >= N - F

\* round is a non-negative integer
NonNegativeInteger(j) == TypeOf(j) = "number" /\ j.den = 1 /\ j.num >= 0

\* C10 (malformed votes): a delivered vote whose phase is not R or P, or whose
\* round is not a non-negative integer, is answered with a rejection and leaves
\* the message store and the node state unchanged.
C10_MalformedRejected ==
    [][\A n \in NodeIds : \A body \in Bodies :
          (/\ Message(n, body)
           /\ \/ body.phase \notin {"R", "P"}
              \/ ~NonNegativeInteger(body.round)) =>
              /\ MessageStatus(body) = 400
              /\ receivedMessages' = receivedMessages
              /\ state' = state]_vars

\* a faulty node has no activation of the engine and its x, decided, k are null
FaultyInert(n) ==
    /\ engines[n] = <<>>
    /\ state[n].x = "null"
    /\ state[n].decided = Null
    /\ state[n].k = Null

\* C11 (faulty nodes are inert): a faulty node never runs the consensus engine,
\* its x, decided and k are null in every state, and a step changes its killed
\* only from false to true.
C11_FaultyInert ==
    /\ [](\A n \in Nodes : isFaulty[n] => FaultyInert(n))
    /\ [][\A n \in Nodes :
             (isFaulty[n] /\ state'[n] # state[n]) =>
                 /\ ~state[n].killed
                 /\ state'[n] = [state[n] EXCEPT !.killed = TRUE]]_vars

\* C11: a faulty node was stopped and holds delivered votes while a peer that
\* was started has completed a round
C11_Witness ==
    \E n \in Nodes :
        /\ isFaulty[n]
        /\ state[n].killed
        /\ BagCardinality(Stored(receivedMessages[n], "R", 0)) > 0
        /\ BagCardinality(Stored(receivedMessages[n], "P", 0)) > 0
        /\ \E m \in NonFaulty : state[m].k = Some(1)

\* the safety part of C12
UnanimousSafe ==
    \A n \in NonFaulty :
        /\ state[n].x = "1"
        /\ \A i \in 1 .. Len(engines[n]) :
               /\ engines[n][i].round = 0
               /\ engines[n][i].pc \in {"Psend", "Pwait"} => engines[n][i].value = "1"
               /\ engines[n][i].pc = "done" => Decided(n) /\ state[n].k = Some(1)
        /\ \A m \in BagToSet(Stored(receivedMessages[n], "P", 0)) : m.value = "1"
        /\ DOMAIN receivedMessages[n]["R"] \subseteq {<<0, 1>>}
        /\ DOMAIN receivedMessages[n]["P"] \subseteq {<<0, 1>>}

\* every non-faulty node has decided 1 in its round-0 iteration
UnanimousDecided ==
    \A n \in NonFaulty :
        Decided(n) /\ state[n].x = "1" /\ state[n].k = Some(1)

\* C12 (safety scenario): with N=4, F=1, three non-faulty nodes of initial
\* value 1 and a silent faulty node, every non-faulty node broadcasts P-value 1
\* in round 0 and decides 1 in its round-0 iteration under every interleaving;
\* none ever holds x = 0 or starts a round-1 broadcast.
C12_UnanimousDecides == []UnanimousSafe /\ <>[]UnanimousDecided

\* C12: the three non-faulty nodes have decided 1 on three stored P-votes 1
C12_Witness ==
    /\ N = 4 /\ F = 1
    /\ Cardinality(NonFaulty) = 3
    /\ \A n \in NonFaulty :
           /\ Decided(n) /\ state[n].x = "1" /\ state[n].k = Some(1)
           /\ Count(Stored(receivedMessages[n], "P", 0), "1") = 3

\* C13 (a decision has a value): in every state a node with decided = true has
\* x = 0 or x = 1.
C13_DecidedHasValue ==
    \A n \in Nodes : Decided(n) => state[n].x \in {"0", "1"}

\* C13: a node has decided in a round in which a quorum of P-votes "?" was
\* stored for it
C13_Witness ==
    \E n \in Nodes :
        /\ Decided(n)
        /\ Count(Stored(receivedMessages[n], "P", state[n].k[1] - 1), "?") >= N - F

\* C16 (R-tally rule): an engine that leaves its R-wait for the P-broadcast
\* broadcasts 0 exactly when at least floor(N/2)+1 of the returned R-votes are
\* 0, 1 exactly when that fails and at least floor(N/2)+1 are 1, and "?"
\* otherwise; votes "?" count for neither value, however many they are.
C16_RTallyRule ==
    [][\A n \in Nodes : \A i \in 1 .. Len(engines[n]) :
          (WaitReturns(n, i, "Rwait") /\ engines'[n][i].pc = "Psend") =>
              LET zeros == Count(Returned(n, i), "0")
                  ones  == Count(Returned(n, i), "1")
                  p     == engines'[n][i].value
              IN  /\ p \in {"0", "1", "?"}
                  /\ p = "0" <=> zeros >= (N \div 2) + 1
                  /\ p = "1" <=> (zeros < (N \div 2) + 1 /\ ones >= (N \div 2) + 1)
                  /\ zeros + ones + Count(Returned(n, i), "?") = BagCardinality(Returned(n, i))
                  /\ engines'[n][i].round = engines[n][i].round]_vars

\* C16: an engine broadcasts P-value 0 after an R-tally in which both 0 and 1
\* reached the majority and votes "?" were stored too
C16_Witness ==
    \E n \in Nodes :
        /\ Len(engines[n]) = 1
        /\ engines[n][1].pc = "Psend"
        /\ engines[n][1].round = 0
        /\ engines[n][1].value = "0"
        /\ Count(Stored(receivedMessages[n], "R", 0), "0") >= (N \div 2) + 1
        /\ Count(Stored(receivedMessages[n], "R", 0), "1") >= (N \div 2) + 1
        /\ Count(Stored(receivedMessages[n], "R", 0), "?") >= (N \div 2) + 1

\* C17 (P-tally without decision): a P-tally in which neither value reaches F+1
\* leaves decided as it was and sets x to 0 if a P-vote 0 was counted, else to 1
\* if a P-vote 1 was counted, else to 0 or 1; after every P-tally x is 0 or 1.
C17_PTallyNoDecision ==
    [][\A n \in Nodes : \A i \in 1 .. Len(engines[n]) :
          (WaitReturns(n, i, "Pwait") /\ state'[n] # state[n]) =>
              LET zeros == Count(Returned(n, i), "0")
                  ones  == Count(Returned(n, i), "1")
              IN  /\ state'[n].x \in {"0", "1"}
                  /\ (zeros < F + 1 /\ ones < F + 1) =>
                        /\ state'[n].decided = state[n].decided
                        /\ zeros > 0 => state'[n].x = "0"
                        /\ (zeros = 0 /\ ones > 0) => state'[n].x = "1"
                        /\ state'[n].k = Some(engines[n][i].round + 1)]_vars

\* C17: a node that started with x = "?" and tolerates a fault has completed
\* round 0 undecided with x = 0, on a quorum of P-votes that were all "?"
C17_Witness ==
    \E n \in Nodes :
        /\ F >= 1
        /\ state[n].decided = Some(FALSE)
        /\ state[n].k = Some(1)
        /\ state[n].x = "0"
        /\ Count(Stored(receivedMessages[n], "P", 0), "0") = 0
        /\ Count(Stored(receivedMessages[n], "P", 0), "1") = 0
        /\ Count(Stored(receivedMessages[n], "P", 0), "?") >= N - F

\* C20 (k on decision): in every state a decided node has k >= 1, and the step
\* in which a node decides on the P-votes of round r of one of its engines sets
\* k to r + 1 and ends that engine.
C20_RoundAdvancedOnDecision ==
    /\ [](\A n \in Nodes : Decided(n) => (state[n].k # Null /\ state[n].k[1] >= 1))
    /\ [][\A n \in Nodes :
             (~Decided(n) /\ Truthy(state'[n].decided)) =>
                 \E i \in 1 .. Len(engines[n]) :
                     /\ WaitReturns(n, i, "Pwait")
                     /\ state'[n].k = Some(engines[n][i].round + 1)
                     /\ engines'[n][i].pc = "done"]_vars

\* C20: the only engine of a node has decided in round 0 and returned, and the
\* node reports k = 1
C20_Witness ==
    \E n \in Nodes :
        /\ Decided(n)
        /\ Len(engines[n]) = 1
        /\ engines[n][1].pc = "done"
        /\ engines[n][1].round = 0
        /\ state[n].k = Some(1)

\* the number of copies of vote v stored at node t in the given store
Copies(rm, t, v) ==
    LET msgs == Stored(rm[t], v.phase, v.round.num)
    IN  IF v \in DOMAIN msgs THEN msgs[v] ELSE 0

\* in this step the store of node t gains exactly the vote v
Gains(t, v) ==
    /\ Copies(receivedMessages', t, v) = Copies(receivedMessages, t, v) + 1
    /\ BagCardinality(Stored(receivedMessages'[t], v.phase, v.round.num))
           = BagCardinality(Stored(receivedMessages[t], v.phase, v.round.num)) + 1
    /\ \A m \in Nodes \ {t} : receivedMessages'[m] = receivedMessages[m]

\* C14 (broadcast fan-out): a broadcast begins at target 0, and every step of
\* an engine inside a broadcast settles the send to its current target, a node
\* id in 0 .. N-1 (the sender's own id included), by a delivery of the vote or
\* by a failure that changes no store; either way the engine goes on to the
\* next target, or to the wait after target N-1, and the node state is
\* untouched.
C14_BroadcastFanOut ==
    [][\A n \in Nodes :
          /\ \A i \in 1 .. Len(engines'[n]) :
                 StartsBroadcast(n, i) => engines'[n][i].tgt = 0
          /\ \A i \in 1 .. Len(engines[n]) :
                 LET e == engines[n][i]
                     v == [senderId |-> n, phase |-> PhaseOf(e),
                           round |-> Num(e.round, 1), value |-> e.value]
                 IN  (e.pc \in {"Rsend", "Psend"} /\ engines'[n][i] # e) =>
                         /\ e.tgt \in Nodes
                         /\ engines'[n][i] =
                                IF e.tgt < N - 1
                                THEN [e EXCEPT !.tgt = e.tgt + 1]
                                ELSE [e EXCEPT !.tgt = 0,
                                               !.pc = IF e.pc = "Rsend" THEN "Rwait" ELSE "Pwait"]
                         /\ state' = state
                         /\ receivedMessages' = receivedMessages \/ Gains(e.tgt, v)]_vars

\* C14: with no external vote, a fetch of a node's R-broadcast of round 0 has
\* failed for a target and a later target holds the vote, and the node's engine
\* has gone on to its R-tally and its P-broadcast
C14_Witness ==
    \E n \in Nodes : \E t \in Nodes : \E u \in Nodes :
        /\ budget.ext = MaxExt
        /\ budget.fail < MaxFail
        /\ t < u
        /\ Len(engines[n]) = 1
        /\ \A m \in BagToSet(Stored(receivedMessages[t], "R", 0)) : m.senderId # n
        /\ \E m \in BagToSet(Stored(receivedMessages[u], "R", 0)) : m.senderId = n
        /\ engines[n][1].round = 0
        /\ engines[n][1].pc \in {"Psend", "Pwait"}

\* a vote with phase R or P and a non-negative integer round
WellFormed(body) == body.phase \in {"R", "P"} /\ NonNegativeInteger(body.round)

\* C15 (no deduplication by sender): every well-formed vote delivered, by a
\* request from outside or by a fetch of an engine, is appended to the store of
\* its (phase, round) whatever votes of its sender are stored already, so the
\* quorum and the tallies count it.
C15_NoDeduplication ==
    [][/\ \A n \in NodeIds : \A body \in Bodies :
              (Message(n, body) /\ WellFormed(body)) => Gains(n, body)
       /\ \A n \in NodeIds : \A i \in EngineIds :
              Send(n, i) =>
                  Gains(engines[n][i].tgt,
                        [senderId |-> n, phase |-> PhaseOf(engines[n][i]),
                         round |-> Num(engines[n][i].round, 1),
                         value |-> engines[n][i].value])]_vars

\* the senders of the P-votes of value v stored at node n for the round
Senders(n, round, v) ==
    {m.senderId : m \in {b \in BagToSet(Stored(receivedMessages[n], "P", round)) : b.value = v}}

\* C15: a node that tolerates a fault has decided v on F+1 P-votes v that all
\* came from one sender
C15_Witness ==
    \E n \in Nodes :
        /\ F >= 1
        /\ Decided(n)
        /\ Len(engines[n]) = 1
        /\ Cardinality(Senders(n, state[n].k[1] - 1, state[n].x)) = 1
        /\ Count(Stored(receivedMessages[n], "P", state[n].k[1] - 1), state[n].x) = F + 1

\* C18 (suspension points): a stop request or an external vote delivery is
\* handled by a node only when none of its engines is inside a broadcast.
C18_SuspendsOnlyInWait ==
    [][\A n \in Nodes :
          (\/ ~state[n].killed /\ state'[n].killed
           \/ \E body \in Bodies : Message(n, body)) =>
              \A i \in 1 .. Len(engines[n]) : engines[n][i].pc \notin {"Rsend", "Psend"}]_vars

\* the values other than "?" of the P-votes of a round, stored or being sent
PValues(round) ==
    ({m.value : m \in UNION {BagToSet(Stored(receivedMessages[n], "P", round)) : n \in Nodes}}
     \cup {engines[n][1].value : n \in {m \in Nodes : /\ Len(engines[m]) > 0
                                                        /\ engines[m][1].round = round
                                                        /\ engines[m][1].pc \in {"Psend", "Pwait"}}})
    \ {"?"}

\* C19 (P-votes agree): when every sender gives one R-vote per round, the
\* P-votes of one round that are not "?" all carry the same value, so no store
\* holds both a 0 and a 1 for the P-phase of a round.
C19_PVotesAgree == \A round \in 0 .. MaxRound : Cardinality(PValues(round)) <= 1

\* C19: in round 1 a node holds a P-vote 0 next to a P-vote "?", after a round 0
\* whose P-votes were 1 and "?"
C19_Witness ==
    \E n \in Nodes :
        /\ Count(Stored(receivedMessages[n], "P", 1), "0") > 0
        /\ Count(Stored(receivedMessages[n], "P", 1), "?") > 0
        /\ PValues(0) = {"1"}

====
